---- MODULE Spec2Model ----
(***************************************************************************)
(* Model of src/index.ts: a singleton Chain of Blocks, each carrying one   *)
(* signed Transaction, Wallets that sign and submit transfers, and the     *)
(* proof-of-work search Chain.mine.                                        *)
(*                                                                         *)
(* Abstractions of the node:crypto library (not part of the repository):   *)
(*  - an RSA key pair is a pair of distinct strings tied by KeyPair;      *)
(*  - a signature is the term (signing key, signed bytes, intact?);        *)
(*  - SHA256 is collision-free: the digest of s is the term <<s>>, and     *)
(*    the empty string is <<>>;                                            *)
(*  - MD5 is given by the table of the decimal strings whose real MD5      *)
(*    digest starts with "0000" (ZeroPrefixed).                            *)
(* JavaScript numbers are records: an exact integer, NaN or Infinity.      *)
(***************************************************************************)
EXTENDS Integers, Sequences, FiniteSets, TLC

VARIABLES chain,     \* Chain.instance.chain : Block[]
          now,       \* the last value read from Date.now(), as an instant index
          call,      \* the most recent call on the chain and how it ended
          mpc,       \* position of Chain.mine: "idle", "loop" or "returned"
          mnonce,    \* the argument nonce of the running/last mine call
          solution   \* the local variable solution of mine (its result once returned)

vars == <<chain, now, call, mpc, mnonce, solution>>

-----------------------------------------------------------------------------
(* Bounds of the model *)

MaxChain == 3
MaxSolution == 12

-----------------------------------------------------------------------------
(* JavaScript numbers *)

Num(v) == [k |-> "int", v |-> v]
NaN == [k |-> "NaN", v |-> 0]
Infinity == [k |-> "Infinity", v |-> 0]

\* x + n for a number x and an integer n: NaN and Infinity absorb the addend
JSAdd(x, n) == IF x.k = "int" THEN Num(x.v + n) ELSE x

\* Number.prototype.toString
NumberToString(x) == IF x.k = "int" THEN ToString(x.v) ELSE x.k

\* JSON.stringify of a number: NaN and Infinity are both written null
JSONNumber(x) == IF x.k = "int" THEN ToString(x.v) ELSE "null"

-----------------------------------------------------------------------------
(* Transaction *)

Transaction(amount, payer, payee) ==
    [amount |-> amount, payer |-> payer, payee |-> payee]

\* Transaction.toString: JSON.stringify(this), fields in declaration order
TransactionToString(t) == <<JSONNumber(t.amount), t.payer, t.payee>>

-----------------------------------------------------------------------------
(* Block *)

MaxNonce == 999999999

\* Math.round(Math.random() * 999999999): the two ends of the range
Nonces == {0, MaxNonce}

EmptyString == <<>>

Block(prevHash, transaction, ts, nonce) ==
    [prevHash |-> prevHash, transaction |-> transaction, ts |-> ts, nonce |-> nonce]

\* crypto.createHash("SHA256") ... digest("hex"), collision-free
SHA256(str) == <<str>>

\* JSON.stringify(block): its own enumerable fields; the nested transaction is
\* serialised as by Transaction.toString
BlockToJSON(b) == <<b.nonce, b.prevHash, TransactionToString(b.transaction), b.ts>>

\* get hash()
hash_ReadsClock(b) ==
    SHA256(<<b.nonce, b.prevHash, TransactionToString(b.transaction), now>>)

hash(b) == SHA256(BlockToJSON(b))

-----------------------------------------------------------------------------
(* Wallets and the signer *)

Wallets == {"daniel", "josh", "jacob"}

publicKey(w) == "PUBLIC KEY " \o w
privateKey(w) == "PRIVATE KEY " \o w

PublicKeys == {publicKey(w) : w \in Wallets}

\* a string that is no PEM-encoded key
MalformedKey == "initial"

\* the private key generated together with public key pk
KeyPair(pk) == CHOOSE sk \in {privateKey(w) : w \in Wallets} :
                  \E w \in Wallets : pk = publicKey(w) /\ sk = privateKey(w)

\* crypto.createSign("SHA256").update(data).sign(sk)
Sign(sk, data) == [key |-> sk, data |-> data, intact |-> TRUE]

\* the same bytes with one bit flipped
Corrupt(sig) == [sig EXCEPT !.intact = FALSE]

\* crypto.createVerify("SHA256").update(data).verify(pk, sig), for a PEM key pk
Verify(pk, sig, data) == sig.intact /\ sig.key = KeyPair(pk) /\ sig.data = data

\* verify throws when the key cannot be parsed
VerifyThrows(pk) == pk \notin PublicKeys

-----------------------------------------------------------------------------
(* Chain *)

\* constructor(): the genesis block, stamped with the first clock reading
ChainConstructor_Empty(nonce) == <<>>

ChainConstructor(nonce) ==
    <<Block(EmptyString, Transaction(Num(500), "initial", "Daniel"), 0, nonce)>>

\* get lastBlock()
lastBlock(c) == c[Len(c)]

\* Date.now() as read by the Block constructor: the clock has not moved since the
\* last reading, or it has moved on
DateNow == {now, now + 1}

\* new Block(this.lastBlock.hash, transaction)
NewBlock_NoLink(c, transaction, ts, nonce) ==
    Block(EmptyString, transaction, ts, nonce)

NewBlock_StaleLink(c, transaction, ts, nonce) ==
    Block(hash(c[1]), transaction, ts, nonce)

\* a caller-supplied timestamp (the epoch) in place of the default Date.now()
NewBlock_CallerTs(c, transaction, ts, nonce) ==
    Block(hash(lastBlock(c)), transaction, -1, nonce)

NewBlock(c, transaction, ts, nonce) ==
    Block(hash(lastBlock(c)), transaction, ts, nonce)

\* this.chain.push(newBlock)
Push_ReplaceTail(c, b) == [c EXCEPT ![Len(c)] = b]

Push_Unshift(c, b) == <<b>> \o c

Push(c, b) == Append(c, b)

\* const isValid = verifier.verify(senderPublicKey, signature)
IsValid_KeyOnly(transaction, senderPublicKey, signature) ==
    signature.intact /\ signature.key = KeyPair(senderPublicKey)

IsValid_RejectsNonPositive(transaction, senderPublicKey, signature) ==
    /\ Verify(senderPublicKey, signature, TransactionToString(transaction))
    /\ transaction.amount.k = "int" /\ transaction.amount.v > 0

IsValid(transaction, senderPublicKey, signature) ==
    Verify(senderPublicKey, signature, TransactionToString(transaction))

\* the record of a call: its name, its arguments, the value of the local isValid
\* (FALSE where it was never assigned), whether it threw, and what it returned
\* (0 for undefined)
Call(op, transaction, senderPublicKey, signature, isValid, threw) ==
    [op |-> op, transaction |-> transaction, senderPublicKey |-> senderPublicKey,
     signature |-> signature, nonce |-> Num(0), isValid |-> isValid, threw |-> threw,
     ret |-> 0]

\* no call yet: the chain has just been constructed
NoCall ==
    Call("new", Transaction(Num(500), "initial", "Daniel"), MalformedKey,
         Sign(MalformedKey, EmptyString), FALSE, FALSE)

MineCall(nonce, ret) == [NoCall EXCEPT !.op = "mine", !.nonce = nonce, !.ret = ret]

\* addBlock(transaction, senderPublicKey, signature), entered as op
\* ("addBlock" when called directly, "sendMoney" when called by Wallet.sendMoney)
addBlock(op, transaction, senderPublicKey, signature) ==
    IF VerifyThrows(senderPublicKey)
    THEN /\ call' = Call(op, transaction, senderPublicKey, signature, FALSE, TRUE)
         /\ UNCHANGED <<chain, now>>
    ELSE LET isValid == IsValid(transaction, senderPublicKey, signature) IN
         /\ call' = Call(op, transaction, senderPublicKey, signature, isValid, FALSE)
         /\ IF isValid
            THEN /\ Len(chain) < MaxChain
                 /\ \E ts \in DateNow, nonce \in Nonces :
                       /\ chain' = Push(chain, NewBlock(chain, transaction, ts, nonce))
                       /\ now' = ts
            ELSE UNCHANGED <<chain, now>>

-----------------------------------------------------------------------------
(* Chain.mine *)

\* the integers in 0..79041 whose decimal string has an MD5 digest starting with
\* "0000": 5329 alone (the next one is 79042)
ZeroPrefixedNumbers == {5329}

ZeroPrefixed == {ToString(n) : n \in ZeroPrefixedNumbers}

FirstZero == CHOOSE n \in ZeroPrefixedNumbers : \A m \in ZeroPrefixedNumbers : n <= m

\* crypto.createHash("MD5").update(str).digest("hex").substr(0, 4): "0000", or
\* some other four digits (md5("NaN") = 7ecf..., md5("Infinity") = eb2a...)
MD5Substr4(str) == IF str \in ZeroPrefixed THEN "0000" ELSE "7ecf"

\* attempt.substr(0, 4) === "0000" for hash.update((nonce + solution).toString())
MineSolved(nonce, s) == MD5Substr4(NumberToString(JSAdd(nonce, s))) = "0000"

\* let solution = 1
MineFirst == 1

\* solution += 1
MineIncrement_Two(s) == s + 2

MineIncrement(s) == s + 1

\* the seeds of the model: the integers at distance 0..MaxSolution below the first
\* zero-prefixed number, and the two numbers that absorb every addend
Seeds == {Num(FirstZero - d) : d \in 0..MaxSolution} \cup {NaN, Infinity}

\* mine(nonce) is called: let solution = 1
MineStart_FromZero(nonce) ==
    /\ mpc \in {"idle", "returned"}
    /\ mpc' = "loop"
    /\ mnonce' = nonce
    /\ solution' = MineFirst - 1
    /\ UNCHANGED <<chain, now, call>>

MineStart(nonce) ==
    /\ mpc \in {"idle", "returned"}
    /\ mpc' = "loop"
    /\ mnonce' = nonce
    /\ solution' = MineFirst
    /\ UNCHANGED <<chain, now, call>>

\* one iteration of while (true) that fails: solution += 1
MineStep ==
    /\ mpc = "loop"
    /\ ~MineSolved(mnonce, solution)
    /\ solution < MaxSolution
    /\ solution' = MineIncrement(solution)
    /\ UNCHANGED <<chain, now, call, mpc, mnonce>>

\* the iteration that succeeds: return solution
MineReturn ==
    /\ mpc = "loop"
    /\ MineSolved(mnonce, solution)
    /\ mpc' = "returned"
    /\ UNCHANGED <<chain, now, call, mnonce, solution>>

\* the value mine(nonce) returns when the loop, entered with solution = s, ends
\* within the bound of the model; 0 when it does not
RECURSIVE MineSearch(_, _)
MineSearch(nonce, s) ==
    IF MineSolved(nonce, s) THEN s
    ELSE IF s >= MaxSolution THEN 0
    ELSE MineSearch(nonce, MineIncrement(s))

\* mine(nonce) from call to return, as one step between the calls on the chain
Mine_Appends(nonce) ==
    /\ mpc = "idle"
    /\ MineSearch(nonce, MineFirst) # 0
    /\ Len(chain) < MaxChain
    /\ chain' = Append(chain, Block(hash(lastBlock(chain)), lastBlock(chain).transaction,
                                    now, nonce.v))
    /\ call' = MineCall(nonce, MineSearch(nonce, MineFirst))
    /\ UNCHANGED <<now, mpc, mnonce, solution>>

Mine(nonce) ==
    /\ mpc = "idle"
    /\ MineSearch(nonce, MineFirst) # 0
    /\ call' = MineCall(nonce, MineSearch(nonce, MineFirst))
    /\ UNCHANGED <<chain, now, mpc, mnonce, solution>>

-----------------------------------------------------------------------------
(* Wallet.sendMoney *)

SendMoneyTransaction(w, amount, payeePublicKey) ==
    Transaction(amount, publicKey(w), payeePublicKey)

SendMoneySignature(w, transaction) ==
    Sign(privateKey(w), TransactionToString(transaction))

\* sendMoney(amount, payeePublicKey) of wallet w
SendMoney(w, amount, payeePublicKey) ==
    /\ mpc = "idle"
    /\ LET transaction == SendMoneyTransaction(w, amount, payeePublicKey)
           signature == SendMoneySignature(w, transaction)
       IN addBlock("sendMoney", transaction, publicKey(w), signature)
    /\ UNCHANGED <<mpc, mnonce, solution>>

\* the transfers of the model, <<wallet, amount, payee>>: the first transfer of
\* the script at the end of the source, a zero amount sent to the sender itself,
\* and a negative amount
Transfers ==
    { <<"daniel", Num(50), publicKey("josh")>>,
      <<"josh", Num(0), publicKey("josh")>>,
      <<"jacob", Num(-1), publicKey("daniel")>> }

-----------------------------------------------------------------------------
(* Direct calls of Chain.instance.addBlock *)

\* the transfer submitted directly: it claims josh as the payer of NaN to jacob
DirectTransactions == {Transaction(NaN, publicKey("josh"), publicKey("jacob"))}

\* the signatures the caller holds: daniel's over that transfer, josh's over two
\* other transfers to jacob (of Infinity and of 23), and a damaged copy of josh's
\* over the transfer itself
Signatures ==
    LET t(a) == Transaction(a, publicKey("josh"), publicKey("jacob"))
    IN { Sign(privateKey("daniel"), TransactionToString(t(NaN))),
         Sign(privateKey("josh"), TransactionToString(t(Infinity))),
         Sign(privateKey("josh"), TransactionToString(t(Num(23)))),
         Corrupt(Sign(privateKey("josh"), TransactionToString(t(NaN)))) }

SenderKeys == {publicKey("josh"), publicKey("daniel"), MalformedKey}

AddBlock(transaction, senderPublicKey, signature) ==
    /\ mpc = "idle"
    /\ addBlock("addBlock", transaction, senderPublicKey, signature)
    /\ UNCHANGED <<mpc, mnonce, solution>>

-----------------------------------------------------------------------------
(* Specifications *)

Init ==
    /\ \E nonce \in Nonces : chain = ChainConstructor(nonce)
    /\ now = 0
    /\ call = NoCall
    /\ mpc = "idle"
    /\ mnonce = Num(0)
    /\ solution = 0

\* the calls on the chain, each run to completion
Next ==
    \/ \E tr \in Transfers : SendMoney(tr[1], tr[2], tr[3])
    \/ \E transaction \in DirectTransactions, senderPublicKey \in SenderKeys,
          signature \in Signatures :
          AddBlock(transaction, senderPublicKey, signature)
    \/ \E nonce \in {Num(FirstZero - 1), Num(FirstZero - 3)} : Mine(nonce)

Spec == Init /\ [][Next]_vars

\* the proof-of-work search, iteration by iteration
NextMine ==
    \/ \E nonce \in Seeds : MineStart(nonce)
    \/ MineStep
    \/ MineReturn

SpecMine == Init /\ [][NextMine]_vars

\* the search runs synchronously on the calling thread: once mine is entered, the
\* next iteration of its loop is always taken
SpecMineFair == SpecMine /\ WF_vars(MineStep) /\ WF_vars(MineReturn)

-----------------------------------------------------------------------------
(* Properties *)

AddBlockCalled(c) == c.op \in {"addBlock", "sendMoney"}

\* the signature of call c is the one the private key matching c.senderPublicKey
\* produces over c.transaction.toString()
SignedByOwner(c) ==
    /\ c.senderPublicKey \in PublicKeys
    /\ c.signature = Sign(KeyPair(c.senderPublicKey), TransactionToString(c.transaction))

\* verify(senderPublicKey, signature) over c.transaction.toString() returns false
DoesNotVerify(c) ==
    /\ c.senderPublicKey \in PublicKeys
    /\ ~Verify(c.senderPublicKey, c.signature, TransactionToString(c.transaction))

\* C1: a call of addBlock whose signature was made over transaction.toString() by
\* the private key matching senderPublicKey makes the chain one longer; the new
\* last block carries the submitted transaction and its prevHash is the hash of
\* the block that was last before the call.
C1_ValidCallAppends ==
    [][ (AddBlockCalled(call') /\ SignedByOwner(call'))
        => /\ Len(chain') = Len(chain) + 1
           /\ lastBlock(chain').transaction = call'.transaction
           /\ lastBlock(chain').prevHash = hash(lastBlock(chain)) ]_vars

C1_Witness ==
    /\ call.op = "addBlock"
    /\ SignedByOwner(call)
    /\ Len(chain) = 3
    /\ chain[3].transaction = call.transaction

\* C2: a call of addBlock whose signature does not verify is a silent no-op: the
\* chain is the same sequence as before and the call returns without raising an
\* error; so for a transfer that claims payer B, submitted with B's public key
\* and signed with A's private key.
C2_InvalidCallIsNoOp ==
    [][ (AddBlockCalled(call') /\ DoesNotVerify(call'))
        => /\ chain' = chain
           /\ ~call'.threw ]_vars

C2_Witness ==
    /\ call.op = "addBlock"
    /\ call.transaction.payer = publicKey("josh")
    /\ call.senderPublicKey = publicKey("josh")
    /\ call.signature = Sign(privateKey("daniel"), TransactionToString(call.transaction))
    /\ ~call.isValid /\ ~call.threw
    /\ Len(chain) = 2

\* C3: in every reachable state, for every index above the first, the prevHash
\* of the block equals the hash of the block before it, recomputed in that state.
C3_HashChain ==
    \A i \in 2..Len(chain) : chain[i].prevHash = hash(chain[i - 1])

C3_Witness ==
    /\ Len(chain) >= 3
    /\ AddBlockCalled(call) /\ DoesNotVerify(call)

\* C4: the chain always holds at least one block, so lastBlock is a block of the
\* chain, whatever addBlock, sendMoney and mine calls were made.
C4_NeverEmpty ==
    /\ Len(chain) >= 1
    /\ Len(chain) \in DOMAIN chain

C4_Witness ==
    /\ call.op = "mine"
    /\ Len(chain) >= 2

\* C5: every step leaves the chain it started from as a prefix of the chain it
\* ends with: the length does not decrease, and every block already in the chain
\* keeps its fields and so its hash.
C5_AppendOnly ==
    [][ /\ Len(chain') >= Len(chain)
        /\ \A i \in 1..Len(chain) :
              /\ chain'[i] = chain[i]
              /\ hash(chain[i])' = hash(chain[i]) ]_vars

C5_Witness ==
    /\ Len(chain) = 3
    /\ call.op = "sendMoney"
    /\ chain[2].ts < chain[3].ts

\* C6: a newly constructed ledger holds the genesis block alone; in every state
\* the first block has the empty prevHash and the transaction (500, "initial",
\* "Daniel"), and no other block has the empty prevHash.
C6_Genesis ==
    /\ call.op = "new" => Len(chain) = 1
    /\ Len(chain) >= 1
    /\ chain[1].prevHash = EmptyString
    /\ chain[1].transaction = Transaction(Num(500), "initial", "Daniel")
    /\ \A i \in 2..Len(chain) : chain[i].prevHash # EmptyString

C6_Witness ==
    /\ Len(chain) >= 3
    /\ call.op # "new"
    /\ chain[1].nonce = MaxNonce

\* the digest of the decimal string of nonce + s begins with "0000"
DigestHasPrefix(nonce, s) == MD5Substr4(NumberToString(JSAdd(nonce, s))) = "0000"

\* C7: the search tries 1, 2, 3, ... in order, so every value below the current
\* solution fails the predicate, and the value mine returns is at least 1,
\* satisfies the predicate, and is the smallest such value.
C7_MineReturnsSmallest ==
    /\ mpc \in {"loop", "returned"} =>
          \A s \in 1..(solution - 1) : ~DigestHasPrefix(mnonce, s)
    /\ mpc = "returned" =>
          /\ solution >= 1
          /\ DigestHasPrefix(mnonce, solution)

C7_Witness ==
    /\ mpc = "returned"
    /\ solution > 2
    /\ mnonce = Num(FirstZero - solution)

\* C8: every call of sendMoney appends exactly one block, whose transaction is
\* (amount, the wallet's public key, payeePublicKey): for a zero or negative
\* amount, an amount never received, and the wallet itself as payee.
C8_SendMoneyAlwaysAppends ==
    [][ \A tr \in Transfers :
           SendMoney(tr[1], tr[2], tr[3])
           => /\ Len(chain') = Len(chain) + 1
              /\ SubSeq(chain', 1, Len(chain)) = chain
              /\ lastBlock(chain').transaction =
                    Transaction(tr[2], publicKey(tr[1]), tr[3]) ]_vars

C8_Witness ==
    /\ call.op = "sendMoney"
    /\ Len(chain) = 3
    /\ chain[2].transaction = Transaction(Num(0), publicKey("josh"), publicKey("josh"))
    /\ chain[3].transaction = Transaction(Num(-1), publicKey("jacob"), publicKey("daniel"))

C10_MineDecoupled ==
    [][ /\ call'.op = "mine" => chain' = chain
        /\ AddBlockCalled(call') =>
              /\ UNCHANGED <<mpc, mnonce, solution>>
              /\ call'.ret = 0
              /\ (chain' # chain) = (call'.senderPublicKey \in PublicKeys
                                      /\ ~DoesNotVerify(call')) ]_vars

C10_Witness ==
    /\ call.op = "mine"
    /\ call.ret = 3
    /\ Len(chain) = 3
    /\ mpc = "idle" /\ solution = 0

\* C11: a block is appended only when the signature was produced by the owner
\* of transaction.payer: in every step of an addBlock call that changes the
\* chain, direct or through sendMoney, the key that signed is the private key
\* matching the payer of the appended transaction.
C11_PayerAuthorized ==
    [][ (AddBlockCalled(call') /\ chain' # chain)
        => /\ call'.transaction.payer \in PublicKeys
           /\ call'.signature.key = KeyPair(call'.transaction.payer) ]_vars

\* C12: once a signed transfer has been accepted and appended by addBlock,
\* submitting the identical (transaction, senderPublicKey, signature) to addBlock
\* again appends no second block for it.
C12_NoDoubleSpend ==
    [][ (call.op = "addBlock" /\ call.isValid /\ call' = call) => chain' = chain ]_vars

\* C13: appends are atomic, so whatever the order of the calls every block links
\* to the block immediately before it and no two blocks of the chain have the
\* same prevHash: the chain never forks.
C13_NoFork ==
    /\ \A i \in 2..Len(chain) : chain[i].prevHash = hash(chain[i - 1])
    /\ \A i, j \in 1..Len(chain) : i # j => chain[i].prevHash # chain[j].prevHash

C13_Witness ==
    /\ Len(chain) = 3
    /\ call.op = "sendMoney"
    /\ chain[2].transaction.payer = publicKey("jacob")
    /\ chain[3].transaction.payer = publicKey("daniel")
    /\ chain[2].ts = chain[3].ts

\* C15: every block is stamped with the clock reading taken at its append, so the
\* timestamps never decrease along the chain, none is later than the last clock
\* reading, and the genesis block has the earliest one.
C15_ChronologicalOrder ==
    /\ \A i, j \in 1..Len(chain) : i < j => chain[i].ts <= chain[j].ts
    /\ \A i \in 1..Len(chain) : chain[1].ts <= chain[i].ts /\ chain[i].ts <= now
    /\ lastBlock(chain).ts = now

C15_Witness ==
    /\ Len(chain) = 3
    /\ chain[1].ts < chain[2].ts
    /\ chain[2].ts < chain[3].ts
    /\ AddBlockCalled(call) /\ ~call.isValid

====
